---- MODULE Spec2Model ----
(***************************************************************************)
(* Model of the DonorsChoose text-length A/B test script                   *)
(* (src/text_length_ab_test.py): the cohort assignment and outcome         *)
(* simulation of implement_ab_test, the chi-square tester perform_ab_test  *)
(* with statistical_tests around it, and the sample-size estimator         *)
(* calculate_sample_size with sample_size_analysis around it.              *)
(*                                                                         *)
(* Numbers.  Python floats are modelled as exact rationals [num, den]      *)
(* (den > 0, lowest terms).  A square root is not rounded: a value that    *)
(* contains one is carried as rat + coef * sqrt(radicand) with the three   *)
(* parts rational.  A p-value of the chi-square test with 1 degree of      *)
(* freedom is a strictly decreasing function of the statistic, so the      *)
(* model carries the statistic and decides "p_value < 0.05" as "statistic  *)
(* > chi2.isf(0.05, 1)", 3.84145882069412596.  NaN and raised exceptions   *)
(* are outcomes of their own.                                              *)
(***************************************************************************)
EXTENDS Integers, Sequences, FiniteSets, TLC

VARIABLES
    df,            \* the table: one sequence per column, <<>> = column absent or no record
    rng,           \* numpy's global random source: [seeded, pos]
    mt_stream,     \* the uniforms the generator yields after seed(42), as far as drawn
    stat_result,   \* what statistical_tests returned or raised on the table as it is
    runs,          \* implement_ab_test has run 0 times, once (1) or more often (2)
    call,          \* arguments of the last direct call of a pure function
    ret            \* what that call returned or raised

vars == <<df, rng, mt_stream, stat_result, runs, call, ret>>

----------------------------------------------------------------------------
(* Bounds of the model *)

\* number of records of the table is 1..MaxRecords
MaxRecords == 2
\* random draws made by other code between two runs of implement_ab_test
MaxExtraDraws == 1

----------------------------------------------------------------------------
(* Small helpers *)

NoCall == [fn |-> "none"]

Abs(x) == IF x < 0 THEN -x ELSE x

Min(a, b) == IF a <= b THEN a ELSE b

RECURSIVE Gcd(_, _)
Gcd(a, b) == IF b = 0 THEN a ELSE Gcd(b, a % b)

RECURSIVE SumRange(_, _, _)
SumRange(s, lo, hi) ==
    IF lo > hi THEN 0
    ELSE IF lo = hi THEN s[lo]
    ELSE LET mid == (lo + hi) \div 2
         IN  SumRange(s, lo, mid) + SumRange(s, mid + 1, hi)

\* Series.sum() of a column of 0/1 values
SumSeq(s) == SumRange(s, 1, Len(s))

\* the rows of a column selected by a boolean mask over row numbers
RECURSIVE SelectRows(_, _, _)
SelectRows(col, keep, i) ==
    IF i > Len(col) THEN <<>>
    ELSE (IF keep[i] THEN <<col[i]>> ELSE <<>>) \o SelectRows(col, keep, i + 1)

----------------------------------------------------------------------------
(* The random source *)

\* uniforms in [0,1), in hundredths: one value in each quarter, two of them on a
\* boundary of the cohort cdf, two below 0.3 and two not
Uniforms == {10, 29, 50, 75}

\* np.random.seed(42): the generator restarts at the head of its seed-42 stream
SeedRng == [seeded |-> TRUE, pos |-> 0]

\* the sequences of n uniforms the source r can yield next: after seed(42) the
\* stream is fixed (mt_stream where already read, any value where not yet);
\* an unseeded source (OS entropy) can yield anything
DrawSeqs(r, n) ==
    LET ahead == IF r.seeded /\ Len(mt_stream) > r.pos THEN Len(mt_stream) - r.pos ELSE 0
        known == Min(n, ahead)
    IN  {[i \in 1..n |-> IF i <= known THEN mt_stream[r.pos + i] ELSE f[i]] :
            f \in [(known + 1)..n -> Uniforms]}

\* the stream as known after r yielded the draws d to implement_ab_test
Reveal(r, d) ==
    IF r.seeded /\ r.pos <= Len(mt_stream) /\ r.pos + Len(d) > Len(mt_stream)
    THEN [i \in 1..(r.pos + Len(d)) |->
            IF i <= Len(mt_stream) THEN mt_stream[i] ELSE d[i - r.pos]]
    ELSE mt_stream

\* the source after n draws (the state of an unseeded source is unknown anyway)
Advance(r, n) == IF r.seeded THEN [r EXCEPT !.pos = r.pos + n] ELSE r

\* cdf.searchsorted(u, side='right'): how many cdf entries are <= u
RECURSIVE SearchSortedRight(_, _)
SearchSortedRight(cdf, u) ==
    IF cdf = <<>> \/ Head(cdf) > u THEN 0
    ELSE 1 + SearchSortedRight(Tail(cdf), u)

RECURSIVE CumSum(_, _)
CumSum(p, acc) ==
    IF p = <<>> THEN <<>> ELSE <<acc + Head(p)>> \o CumSum(Tail(p), acc + Head(p))

\* np.random.choice(a, p=p) for one uniform u (p in hundredths)
Choice(a, p, u) == a[SearchSortedRight(CumSum(p, 0), u) + 1]

----------------------------------------------------------------------------
(* implement_ab_test *)

MutantGroupLabels == <<"A", "B", "C", "E">>
GroupLabels == <<"A", "B", "C", "D">>

GroupProbs == <<25, 25, 25, 25>>

\* test_groups[group]['min_essay_length'] as the module docstring has it
MutantMinEssayLength(group) ==
    CASE group = "A" -> 0 [] group = "B" -> 1000 [] group = "C" -> 1200
      [] group = "D" -> 800 [] OTHER -> 0
\* test_groups[group]['min_essay_length']
MinEssayLength(group) ==
    CASE group = "A" -> 0 [] group = "B" -> 800 [] group = "C" -> 1000
      [] group = "D" -> 1200 [] OTHER -> 0

\* whether simulate_text_length_effect makes a random draw for the row
MutantDrawsForRow(group, essay_length, approved) ==
    /\ MinEssayLength(group) # 0
    /\ essay_length < MinEssayLength(group)
NeedsDraw(group, essay_length, approved) ==
    /\ MinEssayLength(group) # 0
    /\ essay_length < MinEssayLength(group)
    /\ approved = 1

\* simulate_text_length_effect(row), u the uniform it draws when it draws one
SimulateTextLengthEffect(group, essay_length, approved, u) ==
    IF NeedsDraw(group, essay_length, approved)
    THEN Choice(<<0, 1>>, <<30, 70>>, u)
    ELSE approved

\* how many rows of df.apply(simulate_text_length_effect, axis=1) make a draw
RECURSIVE DrawsNeeded(_, _, _, _)
DrawsNeeded(groups, lengths, approved, i) ==
    IF i > Len(groups) THEN 0
    ELSE (IF NeedsDraw(groups[i], lengths[i], approved[i]) THEN 1 ELSE 0)
            + DrawsNeeded(groups, lengths, approved, i + 1)

\* df.apply(simulate_text_length_effect, axis=1): the rows in order from row i
\* on, each row that draws taking the next uniform of d; yields the new column
RECURSIVE ApplySimulate(_, _, _, _, _)
ApplySimulate(groups, lengths, approved, d, i) ==
    IF i > Len(groups) THEN <<>>
    ELSE LET need == NeedsDraw(groups[i], lengths[i], approved[i])
             u    == IF need THEN Head(d) ELSE 0
         IN  <<SimulateTextLengthEffect(groups[i], lengths[i], approved[i], u)>>
                \o ApplySimulate(groups, lengths, approved,
                                 IF need THEN Tail(d) ELSE d, i + 1)

\* the source as implement_ab_test starts drawing from it
MutantNoReseed(r) == r
RngOnEntry(r) == SeedRng

ImplementABTest ==
    LET n  == Len(df.project_is_approved)
        r0 == RngOnEntry(rng)
    IN  \E d \in DrawSeqs(r0, n) :
            LET groups == [i \in 1..n |-> Choice(GroupLabels, GroupProbs, d[i])]
                used   == DrawsNeeded(groups, df.essay_length, df.project_is_approved, 1)
            IN  \E e \in DrawSeqs(Advance(r0, n), used) :
                  /\ df' = [df EXCEPT
                              !.test_group = groups,
                              !.ab_test_approved =
                                  ApplySimulate(groups, df.essay_length,
                                                df.project_is_approved, e, 1)]
                  /\ mt_stream' = Reveal(r0, d \o e)
                  /\ rng' = Advance(r0, n + used)
                  /\ stat_result' = [kind |-> "none", summary |-> <<>>]
                  /\ runs' = Min(runs + 1, 2)
                  /\ UNCHANGED <<call, ret>>

\* a draw from the global source by code other than implement_ab_test; the
\* value goes to that code, only the position of the source matters here
OtherDraw ==
    /\ rng.pos < Len(mt_stream) + MaxExtraDraws
    /\ rng' = Advance(rng, 1)
    /\ UNCHANGED <<df, mt_stream, stat_result, runs, call, ret>>

----------------------------------------------------------------------------
(* Floats as exact rationals; NaN is the value 0/0 *)

NaN == [num |-> 0, den |-> 0]

IsNaN(x) == x.den = 0

\* n/d in lowest terms with a positive denominator (d # 0)
Rat(n, d) ==
    LET g == Gcd(Abs(n), Abs(d))
    IN  IF d < 0 THEN [num |-> (0 - n) \div g, den |-> (0 - d) \div g]
        ELSE [num |-> n \div g, den |-> d \div g]

FInt(n) == [num |-> n, den |-> 1]

\* true division of two integer counts as numpy does it: 0/0 is NaN
FDiv(n, d) == IF d = 0 THEN NaN ELSE Rat(n, d)

FNeg(x) == IF IsNaN(x) THEN NaN ELSE [num |-> 0 - x.num, den |-> x.den]

FAdd(x, y) ==
    IF IsNaN(x) \/ IsNaN(y) THEN NaN
    ELSE LET g == Gcd(x.den, y.den)
         IN  Rat(x.num * (y.den \div g) + y.num * (x.den \div g), (x.den \div g) * y.den)

FSub(x, y) == FAdd(x, FNeg(y))

\* the product, cancelling across before multiplying
FMul(x, y) ==
    IF IsNaN(x) \/ IsNaN(y) THEN NaN
    ELSE LET g1 == Gcd(Abs(x.num), y.den)
             g2 == Gcd(Abs(y.num), x.den)
         IN  Rat((x.num \div g1) * (y.num \div g2), (x.den \div g2) * (y.den \div g1))

\* x / y; a finite value over zero does not occur where the model divides
FQuot(x, y) ==
    IF IsNaN(x) \/ IsNaN(y) \/ y.num = 0 THEN NaN
    ELSE FMul(x, Rat(y.den, y.num))

FAbs(x) == IF IsNaN(x) THEN NaN ELSE [num |-> Abs(x.num), den |-> x.den]

\* x < y, decided on the continued fractions of x and y (no products, so no
\* overflow); any comparison with NaN is false
RECURSIVE RatLess(_, _, _, _)
RatLess(a, b, c, d) ==
    LET qa == a \div b   ra == a % b
        qc == c \div d   rc == c % d
    IN  IF qa # qc THEN qa < qc
        ELSE IF rc = 0 THEN FALSE
        ELSE IF ra = 0 THEN TRUE
        ELSE RatLess(d, rc, b, ra)

FLess(x, y) == IF IsNaN(x) \/ IsNaN(y) THEN FALSE ELSE RatLess(x.num, x.den, y.num, y.den)

FMin(x, y) == IF FLess(y, x) THEN y ELSE x

\* np.sign of a finite value, as an integer
FSign(x) == IF x.num > 0 THEN 1 ELSE IF x.num < 0 THEN -1 ELSE 0

\* a value with a square root in it: rat + coef * sqrt(radicand)
RootNaN == [rat |-> NaN, coef |-> NaN, radicand |-> NaN]

\* np.sqrt(x): nan for nan and for x < 0 (warnings are silenced), else the
\* root of x, kept exact
FSqrt(x) ==
    IF IsNaN(x) \/ x.num < 0 THEN RootNaN
    ELSE IF x.num = 0 THEN [rat |-> FInt(0), coef |-> FInt(0), radicand |-> FInt(0)]
    ELSE [rat |-> FInt(0), coef |-> FInt(1), radicand |-> x]

\* c * s for a rational c
RootScale(c, s) ==
    IF IsNaN(c) \/ IsNaN(s.rat) THEN RootNaN
    ELSE [rat |-> FMul(c, s.rat), coef |-> FMul(c, s.coef), radicand |-> s.radicand]

\* -s
RootNeg(s) == RootScale(FInt(-1), s)

\* r + s and r - s for a rational r
RootPlus(r, s) ==
    IF IsNaN(r) \/ IsNaN(s.rat) THEN RootNaN
    ELSE [rat |-> FAdd(r, s.rat), coef |-> s.coef, radicand |-> s.radicand]

RootMinus(r, s) == RootPlus(r, RootNeg(s))

----------------------------------------------------------------------------
(* scipy.stats.chi2_contingency on a 2x2 table, and perform_ab_test *)

\* the chi-square value above which the p-value (1 degree of freedom) is below
\* alpha = 0.05: chi2.isf(0.05, 1) = 3.84145882069412596, as the fraction
\* ChiCritNum / ChiCritDen (a convergent of it, off by less than 10^-17)
ChiCritNum == 549027368

ChiCritDen == 142921581

Half == [num |-> 1, den |-> 2]

\* one cell's term without the continuity correction
MutantCellTermUncorrected(o, e) ==
    LET adj == FSub(FInt(o), e) IN FQuot(FMul(adj, adj), e)
\* one cell's term of the statistic: expected e, observed o, with Yates'
\* correction (observed moved towards expected by min(0.5, |e - o|))
CellTerm(o, e) ==
    LET diff      == FSub(e, FInt(o))
        magnitude == FMin(Half, FAbs(diff))
        adj       == FSub(FAdd(FInt(o), FMul(magnitude, FInt(FSign(diff)))), e)
    IN  FQuot(FMul(adj, adj), e)

\* chi2_contingency(observed), observed = <<<<a, b>>, <<c, d>>>>: raises
\* ValueError when an expected frequency is zero, else yields the statistic
\* (NaN on the all-zero table, whose expected frequencies are 0/0)
Chi2Contingency(observed) ==
    LET a == observed[1][1]  b == observed[1][2]
        c == observed[2][1]  d == observed[2][2]
        total == a + b + c + d
        rows  == <<a + b, c + d>>
        cols  == <<a + c, b + d>>
        expected == [i \in 1..2 |-> [j \in 1..2 |-> FDiv(rows[i] * cols[j], total)]]
    IN  IF \E i, j \in 1..2 : ~IsNaN(expected[i][j]) /\ expected[i][j].num = 0
        THEN [kind |-> "ValueError"]
        ELSE [kind |-> "return",
              chi2 |-> FAdd(FAdd(CellTerm(a, expected[1][1]), CellTerm(b, expected[1][2])),
                            FAdd(CellTerm(c, expected[2][1]), CellTerm(d, expected[2][2])))]

\* p_value < alpha for alpha = 0.05, on the statistic
PValueBelowAlpha(chi2) == FLess([num |-> ChiCritNum, den |-> ChiCritDen], chi2)

\* np.array([[approved, total - approved], ...]) of perform_ab_test
ContingencyTable(c_approved, c_total, t_approved, t_total) ==
    <<<<c_approved, c_total - c_approved>>, <<t_approved, t_total - t_approved>>>>

\* effect_size = treatment_rate - control_rate
EffectSize(control_rate, treatment_rate) == FSub(treatment_rate, control_rate)

\* perform_ab_test(control_data, treatment_data) with the default alpha
PerformABTest(control_data, treatment_data) ==
    LET control_approved   == SumSeq(control_data)
        control_total      == Len(control_data)
        treatment_approved == SumSeq(treatment_data)
        treatment_total    == Len(treatment_data)
        contingency_table  == ContingencyTable(control_approved, control_total,
                                               treatment_approved, treatment_total)
        test           == Chi2Contingency(contingency_table)
        control_rate   == FDiv(control_approved, control_total)
        treatment_rate == FDiv(treatment_approved, treatment_total)
        effect_size    == EffectSize(control_rate, treatment_rate)
        pooled_se      == FSqrt(FAdd(
                              FQuot(FMul(control_rate, FSub(FInt(1), control_rate)),
                                    FInt(control_total)),
                              FQuot(FMul(treatment_rate, FSub(FInt(1), treatment_rate)),
                                    FInt(treatment_total))))
        ci_95          == RootScale(Rat(196, 100), pooled_se)
    IN  IF test.kind = "ValueError" THEN [kind |-> "ValueError"]
        ELSE [kind           |-> "return",
              control_rate   |-> control_rate,
              treatment_rate |-> treatment_rate,
              effect_size    |-> effect_size,
              chi2           |-> test.chi2,
              significant    |-> PValueBelowAlpha(test.chi2),
              ci_lower       |-> RootMinus(effect_size, ci_95),
              ci_upper       |-> RootPlus(effect_size, ci_95)]

\* df[df['test_group'] == group]['ab_test_approved']
CohortRows(group) == {i \in 1..Len(df.test_group) : df.test_group[i] = group}

CohortData(group) ==
    SelectRows(df.ab_test_approved,
               [i \in 1..Len(df.ab_test_approved) |-> i \in CohortRows(group)], 1)

\* the loop of statistical_tests over B, C, D from the k-th group on: stops at
\* the first call that raises
RECURSIVE TestLoop(_, _)
TestLoop(groups, summary) ==
    IF groups = <<>> THEN [kind |-> "return", summary |-> summary]
    ELSE LET result == PerformABTest(CohortData("A"), CohortData(Head(groups)))
         IN  IF result.kind = "ValueError"
             THEN [kind |-> "ValueError", summary |-> summary]
             ELSE TestLoop(Tail(groups),
                           Append(summary, [group          |-> Head(groups),
                                            treatment_rate |-> result.treatment_rate,
                                            effect_size    |-> result.effect_size,
                                            chi2           |-> result.chi2,
                                            significant    |-> result.significant]))

\* the table has records and no test_group column (a table without records
\* has every column, empty)
NoCohortColumn == df.test_group = <<>> /\ df.project_is_approved # <<>>

\* statistical_tests(df); on a table without the cohort column the lookup fails
StatisticalTests ==
    /\ stat_result' = IF NoCohortColumn THEN [kind |-> "KeyError", summary |-> <<>>]
                      ELSE TestLoop(<<"B", "C", "D">>, <<>>)
    /\ UNCHANGED <<df, rng, mt_stream, runs, call, ret>>

----------------------------------------------------------------------------
(* Long naturals: little-endian digit sequences in base 10^4, no leading zero *)

RECURSIVE BFromInt(_)
BFromInt(n) == IF n = 0 THEN <<>> ELSE <<n % 10000>> \o BFromInt(n \div 10000)

RECURSIVE BToInt(_)
BToInt(x) == IF x = <<>> THEN 0 ELSE Head(x) + 10000 * BToInt(Tail(x))

RECURSIVE BNorm(_)
BNorm(x) ==
    IF x = <<>> \/ x[Len(x)] # 0 THEN x ELSE BNorm(SubSeq(x, 1, Len(x) - 1))

BRest(x) == IF x = <<>> THEN <<>> ELSE Tail(x)

BLow(x) == IF x = <<>> THEN 0 ELSE Head(x)

RECURSIVE BAddC(_, _, _)
BAddC(x, y, c) ==
    IF x = <<>> /\ y = <<>> THEN (IF c = 0 THEN <<>> ELSE <<c>>)
    ELSE LET t == BLow(x) + BLow(y) + c
         IN  <<t % 10000>> \o BAddC(BRest(x), BRest(y), t \div 10000)

BAdd(x, y) == BAddC(x, y, 0)

\* x * m + c for a small m (m <= 200000)
RECURSIVE BMulSmall(_, _, _)
BMulSmall(x, m, c) ==
    IF x = <<>> THEN BFromInt(c)
    ELSE LET t == Head(x) * m + c
         IN  <<t % 10000>> \o BMulSmall(Tail(x), m, t \div 10000)

RECURSIVE BMul(_, _)
BMul(x, y) ==
    IF x = <<>> \/ y = <<>> THEN <<>>
    ELSE BNorm(BAdd(BMulSmall(x, Head(y), 0), <<0>> \o BMul(x, Tail(y))))

\* x <= y on digits i..1, equal above
RECURSIVE BLeqFrom(_, _, _)
BLeqFrom(x, y, i) ==
    IF i = 0 THEN TRUE
    ELSE IF x[i] # y[i] THEN x[i] < y[i]
    ELSE BLeqFrom(x, y, i - 1)

BLeq(x, y) ==
    IF Len(x) # Len(y) THEN Len(x) < Len(y) ELSE BLeqFrom(x, y, Len(x))

\* floor(x / d) and x mod d for a small d (0 < d <= 200000), from digit i down
RECURSIVE BDivStep(_, _, _, _)
BDivStep(x, d, i, r) ==
    IF i = 0 THEN [q |-> <<>>, r |-> r]
    ELSE LET cur  == r * 10000 + x[i]
             rest == BDivStep(x, d, i - 1, cur % d)
         IN  [q |-> Append(rest.q, cur \div d), r |-> rest.r]

BDivSmall(x, d) ==
    LET res == BDivStep(x, d, Len(x), 0) IN [q |-> BNorm(res.q), r |-> res.r]

\* the largest digit d in lo..hi-1 for which acc with digit i set to d has a
\* square <= x (bisection; lo qualifies)
RECURSIVE BRootDigit(_, _, _, _, _)
BRootDigit(x, acc, i, lo, hi) ==
    IF hi - lo <= 1 THEN lo
    ELSE LET mid == (lo + hi) \div 2
             try == BNorm([acc EXCEPT ![i] = mid])
         IN  IF BLeq(BMul(try, try), x) THEN BRootDigit(x, acc, i, mid, hi)
             ELSE BRootDigit(x, acc, i, lo, mid)

\* the digits of floor(sqrt(x)) from digit i down, the higher ones in acc
RECURSIVE BRootFrom(_, _, _)
BRootFrom(x, acc, i) ==
    IF i = 0 THEN acc
    ELSE BRootFrom(x, [acc EXCEPT ![i] = BRootDigit(x, acc, i, 0, 10000)], i - 1)

\* floor(sqrt(x))
BIsqrt(x) ==
    LET n == (Len(x) + 1) \div 2
    IN  BNorm(BRootFrom(x, [i \in 1..n |-> 0], n))

----------------------------------------------------------------------------
(* calculate_sample_size and sample_size_analysis *)

\* norm.ppf(1 - 0.05/2) = 1.959963984540054 and norm.ppf(0.8) =
\* 0.8416212335729143, the doubles scipy returns, as long naturals at scale 10^16
ZAlpha16 == <<540, 4540, 6398, 9599, 1>>

ZBeta16 == <<9143, 3572, 2123, 8416>>

\* 2*p_avg*(1-p_avg) with p_avg = p1 + p2/2 (the parentheses forgotten)
MutantPAvgTerm(x, y, D) == (2 * x + y) * (2 * D - 2 * x - y)
\* 2*p_avg*(1-p_avg) for p_avg = (p1 + p2)/2, p1 = x/D, p2 = y/D, times 2*D^2
PAvgTerm(x, y, D) == (x + y) * (2 * D - x - y)

\* p1*(1-p1) + p2*(1-p2), times D^2
VarTerm(x, y, D) == x * (D - x) + y * (D - y)

\* what the floating-point evaluation of the formula runs into, for p1 = x/D and
\* p2 = y/D: a square root of a negative number gives NaN and int(NaN) raises
\* ValueError; a positive numerator over p2 - p1 = 0 gives inf and int(inf)
\* raises OverflowError; 0/0 gives NaN
SampleSizeOutcome(x, y, D) ==
    LET U == PAvgTerm(x, y, D)
        V == VarTerm(x, y, D)
    IN  IF U < 0 \/ V < 0 THEN [kind |-> "ValueError"]
        ELSE IF y = x THEN (IF U = 0 /\ V = 0 THEN [kind |-> "ValueError"]
                            ELSE [kind |-> "OverflowError"])
        ELSE [kind |-> "compute"]

\* int(np.ceil(n)) for n = 2*((z_alpha*sqrt(2*p_avg*(1-p_avg)) +
\* z_beta*sqrt(p1*(1-p1) + p2*(1-p2))) / (p2 - p1))**2 with p1 = x/D, p2 = y/D:
\* n * (y-x)^2 = z_alpha^2 * U + 2 * z_beta^2 * V + 2 * z_alpha * z_beta * sqrt(2*U*V)
\* for U = PAvgTerm and V = VarTerm, evaluated at scale 10^32
CeilSampleSize(x, y, D) ==
    LET U     == PAvgTerm(x, y, D)
        V     == VarTerm(x, y, D)
        W     == BMul(BFromInt(2 * U), BFromInt(V))
        root  == BIsqrt(<<0, 0, 0, 0, 0, 0, 0, 0>> \o W)
        cross == BMul(BMulSmall(BMul(ZAlpha16, ZBeta16), 2, 0), root)
        X32   == BAdd(BAdd(BMul(BMul(ZAlpha16, ZAlpha16), BFromInt(U)),
                           BMul(BMulSmall(BMul(ZBeta16, ZBeta16), 2, 0), BFromInt(V))),
                      IF Len(cross) > 4 THEN SubSeq(cross, 5, Len(cross)) ELSE <<>>)
        quot  == BDivSmall(X32, (y - x) * (y - x))
        whole == IF Len(quot.q) > 8 THEN BToInt(SubSeq(quot.q, 9, Len(quot.q))) ELSE 0
        exact == quot.r = 0 /\ \A i \in 1..Min(8, Len(quot.q)) : quot.q[i] = 0
    IN  IF exact THEN whole ELSE whole + 1

\* calculate_sample_size(p1=p1, p2=p2) with the default alpha and power
CalculateSampleSize(p1, p2) ==
    IF IsNaN(p1) \/ IsNaN(p2) THEN [kind |-> "ValueError"]
    ELSE LET g  == Gcd(p1.den, p2.den)
             D  == (p1.den \div g) * p2.den
             x  == p1.num * (D \div p1.den)
             y  == p2.num * (D \div p2.den)
             oc == SampleSizeOutcome(x, y, D)
         IN  IF oc.kind = "compute"
             THEN [kind |-> "return", n |-> CeilSampleSize(x, y, D)]
             ELSE oc

\* effect_sizes = [0.01, 0.02, 0.03, 0.05], in hundredths
EffectSizes == <<1, 2, 3, 5>>

\* the loop of sample_size_analysis: the sample sizes it prints, up to the
\* first call that raises
RECURSIVE SizeLoop(_, _, _)
SizeLoop(current_rate, effects, sizes) ==
    IF effects = <<>> THEN [kind |-> "return", sizes |-> sizes]
    ELSE LET new_rate    == FAdd(current_rate, Rat(Head(effects), 100))
             sample_size == CalculateSampleSize(current_rate, new_rate)
         IN  IF sample_size.kind # "return"
             THEN [kind |-> sample_size.kind, sizes |-> sizes]
             ELSE SizeLoop(current_rate, Tail(effects), Append(sizes, sample_size.n))

\* sample_size_analysis(df), df given by its project_is_approved column
SampleSizeAnalysis(project_is_approved) ==
    SizeLoop(FDiv(SumSeq(project_is_approved), Len(project_is_approved)),
             EffectSizes, <<>>)

----------------------------------------------------------------------------
(* Direct calls of perform_ab_test *)

\* samples of a direct call have at most MaxSample outcomes
MaxSample == 4

\* a sample of n outcomes, the first k of them successes
Outcomes(k, n) == [i \in 1..n |-> IF i <= k THEN 1 ELSE 0]

Samples == UNION {[1..n -> {0, 1}] : n \in 0..MaxSample}

\* the two scenarios of the specification's section 8, and a pair of samples
\* whose statistic 156090/40633 = 3.84145891 lies just above the critical value
ScenarioCalls ==
    {[fn |-> "perform_ab_test", control_data |-> Outcomes(870, 1000),
                                treatment_data |-> Outcomes(900, 1000)],
     [fn |-> "perform_ab_test", control_data |-> Outcomes(8, 10),
                                treatment_data |-> Outcomes(8, 10)],
     [fn |-> "perform_ab_test", control_data |-> Outcomes(162, 860),
                                treatment_data |-> Outcomes(196, 860)]}

TesterCalls ==
    [fn : {"perform_ab_test"}, control_data : Samples, treatment_data : Samples]
        \cup ScenarioCalls

CallPerformABTest ==
    /\ call.fn = "perform_ab_test"
    /\ ret = NoCall
    /\ ret' = PerformABTest(call.control_data, call.treatment_data)
    /\ UNCHANGED <<df, rng, mt_stream, stat_result, runs, call>>

----------------------------------------------------------------------------
(* Direct calls of calculate_sample_size and sample_size_analysis *)

\* probabilities of a direct call are the hundredths from -MaxOutside/100 to
\* 1 + MaxOutside/100
MaxOutside == 2

ProbGrid == {Rat(i, 100) : i \in (0 - MaxOutside)..(100 + MaxOutside)}

\* the baseline rates of a direct call
BaselineGrid ==
    {Rat(i, 100) : i \in {0 - MaxOutside, 0, 1, 50, 85, 96, 99, 100, 100 + MaxOutside}}

\* the approval columns sample_size_analysis is called on: k approved of n
AnalysisColumns ==
    UNION {{Outcomes(k, n) : k \in 0..n} : n \in (1..MaxRecords) \cup {25}}

SampleSizeCalls ==
    [fn : {"calculate_sample_size"}, p1 : BaselineGrid, p2 : ProbGrid]
        \cup [fn : {"sample_size_analysis"}, project_is_approved : AnalysisColumns]

CallCalculateSampleSize ==
    /\ call.fn = "calculate_sample_size"
    /\ ret = NoCall
    /\ ret' = CalculateSampleSize(call.p1, call.p2)
    /\ UNCHANGED <<df, rng, mt_stream, stat_result, runs, call>>

CallSampleSizeAnalysis ==
    /\ call.fn = "sample_size_analysis"
    /\ ret = NoCall
    /\ ret' = SampleSizeAnalysis(call.project_is_approved)
    /\ UNCHANGED <<df, rng, mt_stream, stat_result, runs, call>>

----------------------------------------------------------------------------
EssayLengths == {799, 800, 1000, 1200}

Tables ==
    UNION {[project_is_approved : [1..n -> {0, 1}],
            essay_length        : [1..n -> EssayLengths],
            test_group          : {<<>>},
            ab_test_approved    : {<<>>}] : n \in 1..MaxRecords}

Init ==
    /\ df \in Tables
    /\ rng = [seeded |-> FALSE, pos |-> 0]
    /\ mt_stream = <<>>
    /\ stat_result = [kind |-> "none", summary |-> <<>>]
    /\ runs = 0
    /\ call = NoCall
    /\ ret = NoCall

Next == ImplementABTest \/ OtherDraw \/ StatisticalTests

Spec == Init /\ [][Next]_vars

\* the table and the random source while a pure function is called directly
NoTable ==
    /\ df = [project_is_approved |-> <<>>, essay_length |-> <<>>,
             test_group |-> <<>>, ab_test_approved |-> <<>>]
    /\ rng = [seeded |-> FALSE, pos |-> 0]
    /\ mt_stream = <<>>
    /\ stat_result = [kind |-> "none", summary |-> <<>>]
    /\ runs = 0

InitTester ==
    /\ NoTable
    /\ call \in TesterCalls
    /\ ret = NoCall

SpecTester == InitTester /\ [][CallPerformABTest]_vars
InitSampleSize ==
    /\ NoTable
    /\ call \in SampleSizeCalls
    /\ ret = NoCall

NextSampleSize == CallCalculateSampleSize \/ CallSampleSizeAnalysis

SpecSampleSize == InitSampleSize /\ [][NextSampleSize]_vars
----------------------------------------------------------------------------
(* generate_recommendations *)

\* results_df['treatment_rate'].idxmax(): the first row holding the largest
\* rate, rows without a rate skipped; 0 when no row has a rate
IdxMax(summary) ==
    LET rated == {i \in 1..Len(summary) : ~IsNaN(summary[i].treatment_rate)}
        top   == {i \in rated : \A j \in rated :
                     ~FLess(summary[i].treatment_rate, summary[j].treatment_rate)}
    IN  IF top = {} THEN 0 ELSE CHOOSE i \in top : \A j \in top : i <= j

\* results_df['treatment_rate'].idxmin()
IdxMin(summary) ==
    LET rated == {i \in 1..Len(summary) : ~IsNaN(summary[i].treatment_rate)}
        low   == {i \in rated : \A j \in rated :
                     ~FLess(summary[j].treatment_rate, summary[i].treatment_rate)}
    IN  IF low = {} THEN 0 ELSE CHOOSE i \in low : \A j \in low : i <= j

\* what idxmax over rates that are all NaN leads to: the lookup of the NaN
\* label fails, or idxmax itself raises, depending on the pandas release
IdxMaxAllNaNErrors == {"KeyError", "ValueError"}

\* the branch under "3. RECOMMENDATIONS": the test on the best treatment's flag
Recommendation(best_treatment) ==
    IF best_treatment.significant THEN "implement" ELSE "no_improvement"

\* the outcomes of generate_recommendations once statistical_tests has given
\* tests: an error passed on, or the best and worst treatment and the branch
Recommendations(tests) ==
    IF tests.kind # "return" THEN {[kind |-> tests.kind]}
    ELSE IF IdxMax(tests.summary) = 0
         THEN {[kind |-> k] : k \in IdxMaxAllNaNErrors}
         ELSE LET best_treatment  == tests.summary[IdxMax(tests.summary)]
                  worst_treatment == tests.summary[IdxMin(tests.summary)]
              IN  {[kind            |-> "return",
                    best_treatment  |-> best_treatment,
                    worst_treatment |-> worst_treatment,
                    recommendation  |-> Recommendation(best_treatment),
                    improvement     |-> best_treatment.effect_size]}

\* generate_recommendations(df)
GenerateRecommendations ==
    /\ call.fn = "generate_recommendations"
    /\ ret = NoCall
    /\ LET tests == IF NoCohortColumn THEN [kind |-> "KeyError", summary |-> <<>>]
                    ELSE TestLoop(<<"B", "C", "D">>, <<>>)
       IN  /\ stat_result' = tests
           /\ ret' \in Recommendations(tests)
    /\ UNCHANGED <<df, rng, mt_stream, runs, call>>

\* a cohort of an assigned table is empty or has MaxCohort - 1 or MaxCohort
\* records
MaxCohort == 4

CohortSizes == {0, MaxCohort - 1, MaxCohort}

\* n records of cohort g, the first k of them approved
CohortBlock(g, k, n) ==
    [test_group       |-> [i \in 1..n |-> g],
     ab_test_approved |-> Outcomes(k, n)]

CohortBlocks(g) ==
    UNION {{CohortBlock(g, k, n) : k \in 0..n} : n \in CohortSizes}

\* the tables implement_ab_test leaves behind, cohort after cohort, in which
\* no approval was demoted
AssignedTables ==
    {[project_is_approved |-> a.ab_test_approved \o b.ab_test_approved
                                \o c.ab_test_approved \o d.ab_test_approved,
      essay_length        |-> [i \in 1..(Len(a.test_group) + Len(b.test_group)
                                          + Len(c.test_group) + Len(d.test_group))
                                 |-> 1200],
      test_group          |-> a.test_group \o b.test_group \o c.test_group \o d.test_group,
      ab_test_approved    |-> a.ab_test_approved \o b.ab_test_approved
                                \o c.ab_test_approved \o d.ab_test_approved] :
        a \in CohortBlocks("A"), b \in CohortBlocks("B"),
        c \in CohortBlocks("C"), d \in CohortBlocks("D")}

InitRecommend ==
    /\ df \in AssignedTables
    /\ rng = SeedRng
    /\ mt_stream = <<>>
    /\ stat_result = [kind |-> "none", summary |-> <<>>]
    /\ runs = 1
    /\ call = [fn |-> "generate_recommendations"]
    /\ ret = NoCall

SpecRecommend == InitRecommend /\ [][GenerateRecommendations]_vars
----------------------------------------------------------------------------
(* Properties of implement_ab_test, checked under Spec *)

Rows == 1..Len(df.project_is_approved)

\* the table has the test_group column
Assigned == ~NoCohortColumn

Treatments == {"B", "C", "D"}

\* C1: after implement_ab_test the simulated outcome only ever demotes an
\* approval: a record with ab_test_approved = 1 has project_is_approved = 1,
\* in every cohort and for every sequence of random draws.
C1_OnlyDemotes ==
    Assigned => \A i \in Rows :
        df.ab_test_approved[i] = 1 => df.project_is_approved[i] = 1

\* a rejected record with a short essay sits in a treatment cohort, next to an
\* approved one that was demoted
C1_Witness ==
    /\ Assigned
    /\ \E i \in Rows : /\ df.project_is_approved[i] = 0
                       /\ df.test_group[i] = "D"
                       /\ df.essay_length[i] = 799
                       /\ df.ab_test_approved[i] = 0
    /\ \E i \in Rows : df.project_is_approved[i] = 1 /\ df.ab_test_approved[i] = 0

\* C3: cohort assignment partitions the records: every record has one
\* test_group value among A, B, C, D, and the four cohort subsets the later
\* steps select are pairwise disjoint and together hold every record.
C3_CohortsPartition ==
    Assigned =>
        /\ Len(df.test_group) = Len(df.project_is_approved)
        /\ \A i \in Rows : df.test_group[i] \in {"A", "B", "C", "D"}
        /\ \A g, h \in {"A", "B", "C", "D"} :
              g # h => CohortRows(g) \cap CohortRows(h) = {}
        /\ CohortRows("A") \cup CohortRows("B") \cup CohortRows("C") \cup CohortRows("D")
              = Rows
        /\ Len(CohortData("A")) + Len(CohortData("B")) + Len(CohortData("C"))
              + Len(CohortData("D")) = Len(df.project_is_approved)

\* two records, assigned to the cohorts C and D
C3_Witness ==
    /\ Assigned
    /\ Len(df.test_group) = 2
    /\ CohortRows("C") # {}
    /\ CohortRows("D") # {}

\* C9: implement_ab_test is reproducible: a run on a table that already
\* carries the result of an earlier run yields the same test_group and
\* ab_test_approved for every record, whatever was drawn from the random
\* source in between.
C9_Reproducible ==
    [][Assigned => /\ df'.test_group = df.test_group
                   /\ df'.ab_test_approved = df.ab_test_approved]_vars

\* a run on a table that carried a result has happened, with a record demoted
\* by a random draw
C9_Witness ==
    /\ runs = 2
    /\ \E i \in Rows : df.project_is_approved[i] = 1 /\ df.ab_test_approved[i] = 0

\* the thresholds as claim C10 states them
C10Threshold(group) ==
    CASE group = "B" -> 800 [] group = "C" -> 1000 [] group = "D" -> 1200

\* C10: the simulator changes the approval label only of short approved essays
\* in a treatment cohort (B below 800, C below 1000, D below 1200): control
\* records, records at or above their threshold and rejected records keep
\* ab_test_approved = project_is_approved; project_is_approved and
\* essay_length are never modified.
C10_Frame ==
    /\ [](Assigned => \A i \in Rows :
            df.ab_test_approved[i] # df.project_is_approved[i] =>
                /\ df.test_group[i] \in Treatments
                /\ df.essay_length[i] < C10Threshold(df.test_group[i])
                /\ df.project_is_approved[i] = 1)
    /\ [][/\ df'.project_is_approved = df.project_is_approved
          /\ df'.essay_length = df.essay_length]_vars

\* a B record of 799 characters was demoted while a B record of exactly 800
\* characters kept its approval
C10_Witness ==
    /\ Assigned
    /\ \E i, j \in Rows :
          /\ df.test_group[i] = "B" /\ df.essay_length[i] = 799
          /\ df.project_is_approved[i] = 1 /\ df.ab_test_approved[i] = 0
          /\ df.test_group[j] = "B" /\ df.essay_length[j] = 800
          /\ df.project_is_approved[j] = 1 /\ df.ab_test_approved[j] = 1

----------------------------------------------------------------------------
(* Properties of perform_ab_test, checked under SpecTester *)

Called(fn) == call.fn = fn /\ ret # NoCall

\* C2: an empty control or treatment sample makes perform_ab_test raise a
\* distinct insufficient-sample error instead of returning a result.  The code
\* has no such error: it returns a record of NaN when both samples are empty
\* and lets scipy's ValueError (the one an all-success pair of non-empty
\* samples raises too) escape when one is.
C2_EmptySampleRejected ==
    (Called("perform_ab_test")
        /\ (Len(call.control_data) = 0 \/ Len(call.treatment_data) = 0))
    => ret.kind = "InsufficientSampleError"

\* the part of C2 that forbids a result: an empty sample never makes
\* perform_ab_test return
C2_EmptySampleNeverReturns ==
    (Called("perform_ab_test")
        /\ (Len(call.control_data) = 0 \/ Len(call.treatment_data) = 0))
    => ret.kind # "return"

\* C5: perform_ab_test is antisymmetric: for non-empty samples X and Y the call
\* on (Y, X) returns the negated effect_size of the call on (X, Y), the same
\* p-value and significant flag, and the two rates swapped.
C5_Antisymmetric ==
    (Called("perform_ab_test") /\ Len(call.control_data) > 0 /\ Len(call.treatment_data) > 0)
    => LET swapped == PerformABTest(call.treatment_data, call.control_data)
       IN  /\ ret.kind = "return"
           /\ swapped.kind = "return"
           /\ swapped.effect_size = FNeg(ret.effect_size)
           /\ swapped.chi2 = ret.chi2
           /\ swapped.significant = ret.significant
           /\ swapped.control_rate = ret.treatment_rate
           /\ swapped.treatment_rate = ret.control_rate

\* C5 on the calls that return: the relation holds whenever the test yields a
\* result at all, and the swapped call raises exactly when the call does
C5_AntisymmetricWhereReturned ==
    (Called("perform_ab_test") /\ Len(call.control_data) > 0 /\ Len(call.treatment_data) > 0)
    => LET swapped == PerformABTest(call.treatment_data, call.control_data)
       IN  /\ swapped.kind = ret.kind
           /\ ret.kind = "return" =>
                /\ swapped.effect_size = FNeg(ret.effect_size)
                /\ swapped.chi2 = ret.chi2
                /\ swapped.significant = ret.significant
                /\ swapped.control_rate = ret.treatment_rate
                /\ swapped.treatment_rate = ret.control_rate

SameRate(x, y) == SumSeq(x) * Len(y) = SumSeq(y) * Len(x)

\* C6: two non-empty samples with identical success rates (of equal or
\* different sizes) give effect_size = 0, a confidence interval symmetric
\* around 0 and significant = False.
C6_IdenticalRates ==
    (Called("perform_ab_test") /\ Len(call.control_data) > 0 /\ Len(call.treatment_data) > 0
        /\ SameRate(call.control_data, call.treatment_data))
    => /\ ret.kind = "return"
       /\ ret.effect_size = FInt(0)
       /\ ret.ci_lower = RootNeg(ret.ci_upper)
       /\ ~ret.significant

\* C7: control 870 of 1000 against treatment 900 of 1000 gives effect_size =
\* 0.030 and significant = True: the statistic of the table
\* [[870,130],[900,100]], continuity correction included, is
\* 2000 * (30000 - 1000)^2 / (1000 * 1000 * 1770 * 230) = 16820/4071 = 4.1317
\* and exceeds 3.841.
C7_Scenario ==
    (Called("perform_ab_test") /\ call.control_data = Outcomes(870, 1000)
        /\ call.treatment_data = Outcomes(900, 1000))
    => /\ ret.kind = "return"
       /\ ret.effect_size = Rat(30, 1000)
       /\ ret.significant
       /\ FLess(Rat(3841, 1000), ret.chi2)
       /\ ret.chi2 = Rat(16820, 4071)

C7_Witness ==
    /\ Called("perform_ab_test")
    /\ call.control_data = Outcomes(870, 1000)
    /\ call.treatment_data = Outcomes(900, 1000)
    /\ ret.kind = "return"
    /\ ret.control_rate = Rat(87, 100)
    /\ ret.treatment_rate = Rat(9, 10)

----------------------------------------------------------------------------
(* Properties of calculate_sample_size, checked under SpecSampleSize *)

InUnit(p) == ~FLess(p, FInt(0)) /\ ~FLess(FInt(1), p)

\* C4: calculate_sample_size fails explicitly, instead of returning a sample
\* size, whenever p1 or p2 lies outside [0,1] or p1 = p2; so does every call
\* sample_size_analysis makes with p2 = current_rate + effect above 1.
C4_InvalidInputsRejected ==
    /\ (Called("calculate_sample_size")
          /\ (~InUnit(call.p1) \/ ~InUnit(call.p2) \/ call.p1 = call.p2))
       => ret.kind # "return"
    /\ (Called("sample_size_analysis")
          /\ SumSeq(call.project_is_approved) * 100 + 5 * Len(call.project_is_approved)
                > 100 * Len(call.project_is_approved))
       => ret.kind # "return"

\* C8: with p1 fixed in [0,1), calculate_sample_size returns a positive
\* integer for every p2 with p1 < p2 <= 1, and the size does not increase when
\* p2 grows: the size for the next p2 on the grid is no larger.
C8_PositiveAndMonotone ==
    (Called("calculate_sample_size") /\ InUnit(call.p1) /\ InUnit(call.p2)
        /\ FLess(call.p1, call.p2))
    => /\ ret.kind = "return"
       /\ ret.n >= 1
       /\ LET next == FAdd(call.p2, Rat(1, 100))
          IN  InUnit(next) =>
                LET larger == CalculateSampleSize(call.p1, next)
                IN  larger.kind = "return" /\ larger.n >= 1 /\ larger.n <= ret.n

\* the specification's scenario: p1 = 0.85, p2 = 0.87 needs 9448 per group, and
\* p2 = 0.88 needs fewer
C8_Witness ==
    /\ Called("calculate_sample_size")
    /\ call.p1 = Rat(85, 100)
    /\ call.p2 = Rat(87, 100)
    /\ ret.kind = "return"
    /\ ret.n = 9448
    /\ CalculateSampleSize(call.p1, Rat(88, 100)).n < 9448

----------------------------------------------------------------------------
(* Properties of generate_recommendations, checked under SpecRecommend *)

\* C11: generate_recommendations takes the branch that recommends a treatment
\* as the new standard only when the best treatment (highest treatment_rate
\* among B, C, D) is significant and improves on control (effect_size > 0);
\* otherwise it takes the "no statistically significant improvement" branch.
\* The code tests the flag alone, so a best treatment that is significantly
\* worse than control is recommended.
C11_RecommendsOnlyImprovement ==
    (Called("generate_recommendations") /\ ret.kind = "return")
    => (ret.recommendation = "implement"
          <=> (ret.best_treatment.significant
                 /\ FLess(FInt(0), ret.best_treatment.effect_size)))

\* C11 as the code has it: the recommending branch is taken exactly when the
\* best treatment is significant, whatever the sign of its effect
C11_RecommendsWhenSignificant ==
    (Called("generate_recommendations") /\ ret.kind = "return")
    => /\ \A i \in 1..Len(stat_result.summary) :
            ~FLess(ret.best_treatment.treatment_rate, stat_result.summary[i].treatment_rate)
       /\ ret.recommendation = "implement" <=> ret.best_treatment.significant

\* a significant improvement was recommended
C11_Witness ==
    /\ Called("generate_recommendations")
    /\ ret.kind = "return"
    /\ ret.recommendation = "implement"
    /\ FLess(FInt(0), ret.improvement)
====
